---------------------------- MODULE Spec2Model ----------------------------
(***************************************************************************)
(* A model of tornado_swagger/swagger.py: the EpytextParser span           *)
(* extractor, the DocParser field handlers, and the two decorators         *)
(* (operation, model) that merge signature introspection with the parsed   *)
(* documentation fields.                                                   *)
(*                                                                         *)
(* Encoding of Python values:                                              *)
(*   None            the string None below, distinct from every text used  *)
(*   dict            a function whose DOMAIN is the set of keys            *)
(*   OrderedDict     a sequence of entries [k |-> key, v |-> value]        *)
(*   markup body     the sequence of start/end/data events that            *)
(*                   HTMLParser produces from str(body); its plain text is *)
(*                   the concatenation of its data events                  *)
(***************************************************************************)
EXTENDS Integers, Sequences, FiniteSets, TLC

VARIABLES
    epy,      \* the EpytextParser instance: [tag, a_text, data]
    events,   \* the events fed to epy so far
    op,       \* the operation builder (a DocParser with func, func_args)
    pc,       \* position of the decoration in progress
    doc,      \* the fields of the documentation text dispatched so far
    universe, \* which fields the documentation texts are written with
    calls,    \* how often the original callable has been invoked
    result,   \* the record of the last call of a builder or wrapper
    models,   \* settings.models, the model registry
    bld,      \* the model builders, in the order of their construction
    cur       \* the model builder that doc is the documentation of

vars == <<epy, events, op, pc, doc, universe, calls, result, models, bld, cur>>

None == "<None>"

(***************************************************************************)
(* Bounds of the model.                                                    *)
(***************************************************************************)
MaxEvents == 5
MaxFields == 3
MaxCalls == 2
MaxBuilders == 3

-----------------------------------------------------------------------------
(***************************************************************************)
(* Python dict and OrderedDict.                                            *)
(***************************************************************************)
EmptyDict == <<>>

DictUpdate(d, u) ==
    [key \in (DOMAIN d) \cup (DOMAIN u) |-> IF key \in DOMAIN u THEN u[key] ELSE d[key]]

ODKeys(od) == {od[i].k : i \in DOMAIN od}

ODIndex(od, key) == CHOOSE i \in DOMAIN od : od[i].k = key

ODGet(od, key) == od[ODIndex(od, key)].v

ODSetDefault(od, key, dflt) ==
    IF key \in ODKeys(od) THEN od ELSE Append(od, [k |-> key, v |-> dflt])

\* od.setdefault(key, {}).update(u)
ODUpsert(od, key, u) ==
    LET od1 == ODSetDefault(od, key, EmptyDict)
        i == ODIndex(od1, key)
    IN  [od1 EXCEPT ![i].v = DictUpdate(od1[i].v, u)]

\* od[key] = value
ODSet(od, key, value) ==
    IF key \in ODKeys(od)
    THEN [od EXCEPT ![ODIndex(od, key)].v = value]
    ELSE Append(od, [k |-> key, v |-> value])

-----------------------------------------------------------------------------
(***************************************************************************)
(* EpytextParser.                                                          *)
(***************************************************************************)
StartEv(t) == [k |-> "start", v |-> t]
EndEv(t) == [k |-> "end", v |-> t]
DataEv(s) == [k |-> "data", v |-> s]

EpytextParserInit(tag) == [tag |-> tag, a_text |-> FALSE, data |-> None]

handle_starttag(p, tag) == IF tag = p.tag THEN [p EXCEPT !.a_text = TRUE] ELSE p

handle_endtag(p, tag) == IF tag = p.tag THEN [p EXCEPT !.a_text = FALSE] ELSE p

\* handle_data as it would be if the first text were kept
handle_data_first(p, data) ==
    IF p.a_text /\ p.data = None THEN [p EXCEPT !.data = data] ELSE p

handle_data(p, data) == IF p.a_text THEN [p EXCEPT !.data = data] ELSE p

get_data(p) == p.data

HandleEvent(p, e) ==
    CASE e.k = "start" -> handle_starttag(p, e.v)
      [] e.k = "end" -> handle_endtag(p, e.v)
      [] e.k = "data" -> handle_data(p, e.v)

RECURSIVE feed(_, _)
feed(p, evs) == IF evs = <<>> THEN p ELSE feed(HandleEvent(p, Head(evs)), Tail(evs))

\* DocParser._parse_epytext_para: a body object is always true
_parse_epytext_para(tag, body) == get_data(feed(EpytextParserInit(tag), body))

-----------------------------------------------------------------------------
(***************************************************************************)
(* DocParser.                                                              *)
(***************************************************************************)
\* Python truth of a string or None
Truthy(v) == v # None /\ v # ""

IsSpace(c) == c \in {" ", "\n", "\t"}

RECURSIVE LStrip(_)
LStrip(s) ==
    IF Len(s) > 0 /\ IsSpace(SubSeq(s, 1, 1)) THEN LStrip(SubSeq(s, 2, Len(s))) ELSE s

RECURSIVE RStrip(_)
RStrip(s) ==
    IF Len(s) > 0 /\ IsSpace(SubSeq(s, Len(s), Len(s)))
    THEN RStrip(SubSeq(s, 1, Len(s) - 1))
    ELSE s

Strip(s) == RStrip(LStrip(s))

\* body.to_plaintext(None): the text of the body without its markup
RECURSIVE to_plaintext(_)
to_plaintext(body) ==
    IF body = <<>> THEN ""
    ELSE IF Head(body).k = "data" THEN Head(body).v \o to_plaintext(Tail(body))
    ELSE to_plaintext(Tail(body))

\* a body object is always true, so the text is always taken and stripped
_get_body(body) == Strip(to_plaintext(body))

RECURSIVE ReplaceNewlines(_)
ReplaceNewlines(s) ==
    IF Len(s) = 0 THEN s
    ELSE (IF SubSeq(s, 1, 1) = "\n" THEN " " ELSE SubSeq(s, 1, 1))
             \o ReplaceNewlines(SubSeq(s, 2, Len(s)))

_sanitize_doc(comment) == IF Truthy(comment) THEN ReplaceNewlines(comment) ELSE comment

DocParserInit ==
    [notes |-> None, summary |-> None, responseClasses |-> <<>>,
     responseMessages |-> <<>>, params |-> <<>>, properties |-> <<>>]

\* _parse_param as it would be without the test of line 88
_parse_param_overwrite(dp, arg, body) ==
    [dp EXCEPT !.params =
        ODUpsert(dp.params, arg,
                 [name |-> arg, description |-> _get_body(body), paramType |-> "query"])]

_parse_param(dp, arg, body) ==
    LET p1 == ODUpsert(dp.params, arg, [name |-> arg, description |-> _get_body(body)])
    IN  [dp EXCEPT !.params =
            IF "paramType" \notin DOMAIN ODGet(p1, arg)
            THEN ODUpsert(p1, arg, [paramType |-> "query"])
            ELSE p1]

_parse_type(dp, arg, body) ==
    [dp EXCEPT !.params =
        ODUpsert(dp.params, arg, [name |-> arg, dataType |-> _get_body(body)])]

_parse_in(dp, arg, body) ==
    [dp EXCEPT !.params =
        ODUpsert(dp.params, arg, [name |-> arg, paramType |-> _get_body(body)])]

\* _parse_required as it would be if only 'false' were recognised
_parse_required_lowercase_only(dp, arg, body) ==
    [dp EXCEPT !.params =
        ODUpsert(dp.params, arg,
                 [name |-> arg, required |-> (_get_body(body) # "false")])]

_parse_required(dp, arg, body) ==
    [dp EXCEPT !.params =
        ODUpsert(dp.params, arg,
                 [name |-> arg,
                  required |-> IF _get_body(body) \in {"False", "false"} THEN FALSE ELSE TRUE])]

\* _parse_rtype as it would be without the test of arg
_parse_rtype_any_arg(dp, arg, body) ==
    [dp EXCEPT !.responseClasses = ODSet(dp.responseClasses, arg, _get_body(body))]

_parse_rtype(dp, arg, body) ==
    IF Truthy(arg)
    THEN [dp EXCEPT !.responseClasses = ODSet(dp.responseClasses, arg, _get_body(body))]
    ELSE dp

_parse_property(dp, arg, body) ==
    [dp EXCEPT !.properties =
        ODUpsert(dp.properties, arg, [description |-> _get_body(body)])]

_parse_ptype(dp, arg, body) ==
    LET code == _parse_epytext_para("code", body)
        link == _parse_epytext_para("link", body)
    IN  IF code = None
        THEN [dp EXCEPT !.properties =
                ODUpsert(dp.properties, arg, [type |-> _get_body(body)])]
        ELSE IF code = "list"
        THEN [dp EXCEPT !.properties =
                ODUpsert(dp.properties, arg,
                         [type |-> "array", items |-> [type |-> link]])]
        ELSE dp

\* self.responseClasses.get(arg)
ResponseClassOf(dp, arg) ==
    IF arg \in ODKeys(dp.responseClasses) THEN ODGet(dp.responseClasses, arg) ELSE None

_parse_return(dp, arg, body) ==
    LET response_message == [code |-> arg, message |-> _get_body(body)]
        response_class == ResponseClassOf(dp, arg)
    IN  [dp EXCEPT !.responseMessages =
            Append(dp.responseMessages,
                   IF Truthy(response_class)
                   THEN DictUpdate(response_message, [responseModel |-> response_class])
                   ELSE response_message)]

_parse_notes(dp, arg, body) == [dp EXCEPT !.notes = _sanitize_doc(_get_body(body))]

_parse_description(dp, arg, body) == [dp EXCEPT !.summary = _sanitize_doc(_get_body(body))]

_not_supported(dp, arg, body) == dp

\* self._get_parser(tag)(arg=arg, body=body)
DispatchField(dp, field) ==
    CASE field.tag = "param" -> _parse_param(dp, field.arg, field.body)
      [] field.tag = "type" -> _parse_type(dp, field.arg, field.body)
      [] field.tag = "in" -> _parse_in(dp, field.arg, field.body)
      [] field.tag = "required" -> _parse_required(dp, field.arg, field.body)
      [] field.tag = "rtype" -> _parse_rtype(dp, field.arg, field.body)
      [] field.tag = "property" -> _parse_property(dp, field.arg, field.body)
      [] field.tag = "ptype" -> _parse_ptype(dp, field.arg, field.body)
      [] field.tag = "return" -> _parse_return(dp, field.arg, field.body)
      [] field.tag = "raise" -> _parse_return(dp, field.arg, field.body)
      [] field.tag = "notes" -> _parse_notes(dp, field.arg, field.body)
      [] field.tag = "description" -> _parse_description(dp, field.arg, field.body)
      [] OTHER -> _not_supported(dp, field.arg, field.body)

Field(tag, arg, body) == [tag |-> tag, arg |-> arg, body |-> body]

\* a body of plain text
Text(s) == <<DataEv(s)>>

\* a body with one inline element
Span(tag, s) == <<StartEv(tag), DataEv(s), EndEv(tag)>>

ParamNames == {"x", "y"}

\* texts written with the tags that describe parameters
ParamFields ==
    {Field("param", a, Text("the text")) : a \in ParamNames}
        \cup {Field("type", a, Text("int")) : a \in ParamNames}
        \cup {Field("in", "x", Text(b)) : b \in {"body", "header"}}
        \cup {Field("in", "y", Text("body"))}
        \cup {Field("required", "x", Text(b)) : b \in {"false", "False", "true"}}
        \cup {Field("required", "y", Text("true"))}
        \cup {Field("see", None, Text("the text"))}

Codes == {None, "200", "404"}

\* texts written with the tags that describe responses
ResponseFields ==
    {Field("rtype", c, Text(m)) : c \in Codes, m \in {"Widget", "Error"}}
        \cup {Field("return", c, Text("OK")) : c \in Codes}
        \cup {Field("raise", c, Text("failed")) : c \in Codes}

PropertyNames == {"a", "p"}

\* the bodies of @ptype fields: a plain type, C{list} of L{Widget}, C{list}
\* alone, C{dict} of L{Widget}, and L{Widget} alone
PtypeBodies ==
    {Text("int"),
     Span("code", "list") \o Text(" of ") \o Span("link", "Widget"),
     Span("code", "list"),
     Span("code", "dict") \o Text(" of ") \o Span("link", "Widget"),
     Span("link", "Widget")}

\* texts written with the tags that describe properties
PropertyFields ==
    {Field("property", a, Text("the text")) : a \in PropertyNames}
        \cup {Field("ptype", a, b) : a \in PropertyNames, b \in PtypeBodies}

\* the one text the classes of the registry runs are documented with
RegistryFields == {Field("property", "a", Text("the text"))}

FieldsOf(u) ==
    CASE u = "params" -> ParamFields
      [] u = "responses" -> ResponseFields
      [] u = "properties" -> PropertyFields
      [] u = "registry" -> RegistryFields

-----------------------------------------------------------------------------
SpanTags == {"code", "link"}
SpanTexts == {"list", "Widget"}


EventUniverse ==
    {StartEv(t) : t \in SpanTags} \cup {EndEv(t) : t \in SpanTags}
        \cup {DataEv(s) : s \in SpanTexts}

IdleOthersOfExtract ==
    /\ op = None /\ pc = "idle" /\ doc = <<>> /\ universe = "none"
    /\ calls = 0 /\ result = None
    /\ models = <<>> /\ bld = <<>> /\ cur = 0

\* EpytextParser(tag), before feed(str(body))
InitExtract ==
    /\ \E tag \in SpanTags : epy = EpytextParserInit(tag)
    /\ events = <<>>
    /\ IdleOthersOfExtract

\* the elements still open after evs, innermost last
RECURSIVE OpenElements(_)
OpenElements(evs) ==
    IF evs = <<>> THEN <<>>
    ELSE LET before == OpenElements(SubSeq(evs, 1, Len(evs) - 1))
             e == evs[Len(evs)]
         IN  CASE e.k = "start" -> Append(before, e.v)
               [] e.k = "end" -> SubSeq(before, 1, Len(before) - 1)
               [] e.k = "data" -> before

\* str(body) is the serialisation of a tree: an end tag closes the innermost
\* open element, and the tokenizer delivers a maximal run of text as one
\* data event
FeedAllowed(e) ==
    /\ Len(events) < MaxEvents
    /\ e \in EventUniverse
    /\ ~(e.k = "data" /\ events # <<>> /\ events[Len(events)].k = "data")
    /\ e.k = "end" =>
          LET open == OpenElements(events)
          IN  open # <<>> /\ open[Len(open)] = e.v

FeedStartTag(t) ==
    /\ FeedAllowed(StartEv(t))
    /\ epy' = handle_starttag(epy, t)
    /\ events' = Append(events, StartEv(t))
    /\ UNCHANGED <<op, pc, doc, universe, calls, result, models, bld, cur>>

FeedEndTag(t) ==
    /\ FeedAllowed(EndEv(t))
    /\ epy' = handle_endtag(epy, t)
    /\ events' = Append(events, EndEv(t))
    /\ UNCHANGED <<op, pc, doc, universe, calls, result, models, bld, cur>>

FeedData(s) ==
    /\ FeedAllowed(DataEv(s))
    /\ epy' = handle_data(epy, s)
    /\ events' = Append(events, DataEv(s))
    /\ UNCHANGED <<op, pc, doc, universe, calls, result, models, bld, cur>>

NextExtract ==
    \/ \E t \in SpanTags : FeedStartTag(t)
    \/ \E t \in SpanTags : FeedEndTag(t)
    \/ \E s \in SpanTexts : FeedData(s)

SpecExtract == InitExtract /\ [][NextExtract]_vars

-----------------------------------------------------------------------------
(***************************************************************************)
(* operation: the decorator of handler functions.                          *)
(*                                                                         *)
(* A function object is what inspect.getargspec reads of it: its name,     *)
(* its argument names (the receiver included) and the number of trailing   *)
(* arguments with a default.  Its documentation text is read one field at  *)
(* a time by the loop of parse_docstring; doc is the part of the text      *)
(* dispatched so far, so every state of the loop is also the final state   *)
(* of the document that ends there.                                        *)
(***************************************************************************)
Func(name, args, ndefaults) == [name |-> name, args |-> args, ndefaults |-> ndefaults]

Funcs ==
    {Func("ping", <<>>, 0),
     Func("get", <<"self", "x">>, 0),
     Func("put", <<"self", "x", "y">>, 1),
     Func("find", <<"x">>, 1)}

FuncNamed(n) == CHOOSE f \in Funcs : f.name = n

\* list.remove(x): drops the first occurrence
RECURSIVE ListRemove(_, _)
ListRemove(list, x) ==
    IF list = <<>> THEN <<>>
    ELSE IF Head(list) = x THEN Tail(list)
    ELSE <<Head(list)>> \o ListRemove(Tail(list), x)

InList(x, list) == \E i \in DOMAIN list : list[i] = x

\* list[-n:] for n > 0
LastN(list, n) ==
    IF n >= Len(list) THEN list ELSE SubSeq(list, Len(list) - n + 1, Len(list))

\* operation.__init__
OperationInit ==
    DictUpdate(DocParserInit,
               [nickname |-> None, func |-> None, func_args |-> <<>>, name |-> None,
                parsed |-> 0])

RECURSIVE SeedParams(_, _, _)
SeedParams(params, args, defaults) ==
    IF args = <<>> THEN params
    ELSE SeedParams(
             ODSetDefault(params, Head(args),
                          [name |-> Head(args),
                           required |-> ~InList(Head(args), defaults),
                           paramType |-> "path",
                           dataType |-> "string"]),
             Tail(args), defaults)

\* operation._parse_args as it would be if the defaults were taken from the
\* front of args
operation_parse_args_first_n(o, f) ==
    LET args == IF InList("self", f.args) THEN ListRemove(f.args, "self") ELSE f.args
        defaults == IF f.ndefaults > 0 THEN SubSeq(args, 1, f.ndefaults) ELSE <<>>
    IN  [o EXCEPT !.params = SeedParams(o.params, args, defaults),
                  !.func_args = args]

operation_parse_args(o, f) ==
    LET args == IF InList("self", f.args) THEN ListRemove(f.args, "self") ELSE f.args
        defaults == IF f.ndefaults > 0 THEN LastN(args, f.ndefaults) ELSE <<>>
    IN  [o EXCEPT !.params = SeedParams(o.params, args, defaults),
                  !.func_args = args]

\* operation._parse_operation up to the call of parse_docstring; parsed
\* counts the runs of _parse_operation
_parse_operation(o, f) ==
    operation_parse_args(
        [o EXCEPT !.func = f.name, !.name = f.name, !.parsed = o.parsed + 1], f)

\* The record of the last call: which callable was called (the builder or
\* the wrapper it returned), whether the builder had its func already, the
\* argument, whether the call invoked the original function, and what it
\* returned:
\* the wrapper (which carries the builder as rest_api) or whatever the
\* original function returned for the argument.
NoResult ==
    [callee |-> None, built |-> FALSE, arg |-> None, invoked |-> FALSE, value |-> None]
Wrapper == "__wrapper__"
FuncResult == "self.func(*args)"

\* what a call of the built decorator is given: the decorated function
\* again, or a request
CallArgs == {op.func, "request"}

\* operation.__call__ on a builder that has no func yet: parse the signature,
\* then enter the loop of parse_docstring
operation_call_first(f) ==
    /\ pc = "idle"
    /\ ~Truthy(op.func)
    /\ op' = _parse_operation(op, f)
    /\ pc' = "parsing"
    /\ doc' = <<>>
    /\ UNCHANGED <<epy, events, universe, calls, result, models, bld, cur>>

\* one iteration of the loop of parse_docstring
operation_parse_field(field) ==
    /\ pc = "parsing"
    /\ Len(doc) < MaxFields
    /\ op' = DispatchField(op, field)
    /\ doc' = Append(doc, field)
    /\ UNCHANGED <<epy, events, pc, universe, calls, result, models, bld, cur>>

\* the end of the loop: the wrapper is built, given rest_api and returned
operation_call_return ==
    /\ pc = "parsing"
    /\ pc' = "done"
    /\ result' = [callee |-> "operation", built |-> FALSE, arg |-> op.func,
                  invoked |-> FALSE, value |-> Wrapper]
    /\ UNCHANGED <<epy, events, op, doc, universe, calls, models, bld, cur>>

\* operation.__call__ as it would be without the test of self.func, called
\* again with the decorated function
operation_call_built_reparse(arg) ==
    /\ pc = "done"
    /\ calls < MaxCalls
    /\ arg = op.func
    /\ op' = _parse_operation(op, FuncNamed(arg))
    /\ result' = [callee |-> "operation", built |-> TRUE, arg |-> arg,
                  invoked |-> FALSE, value |-> Wrapper]
    /\ UNCHANGED <<epy, events, pc, doc, universe, calls, models, bld, cur>>

\* operation.__call__ on a builder whose func is set: return self.func(*args)
operation_call_built(arg) ==
    /\ pc = "done"
    /\ Truthy(op.func)
    /\ calls < MaxCalls
    /\ calls' = calls + 1
    /\ result' = [callee |-> "operation", built |-> TRUE, arg |-> arg,
                  invoked |-> TRUE, value |-> FuncResult]
    /\ UNCHANGED <<epy, events, op, pc, doc, universe, models, bld, cur>>

\* __wrapper__(*in_args): return self.func(*in_args)
wrapper_call(arg) ==
    /\ pc = "done"
    /\ calls < MaxCalls
    /\ calls' = calls + 1
    /\ result' = [callee |-> "wrapper", built |-> TRUE, arg |-> arg,
                  invoked |-> TRUE, value |-> FuncResult]
    /\ UNCHANGED <<epy, events, op, pc, doc, universe, models, bld, cur>>

NextOperation ==
    \/ \E f \in Funcs : operation_call_first(f)
    \/ \E field \in FieldsOf(universe) : operation_parse_field(field)
    \/ operation_call_return
    \/ \E arg \in CallArgs : operation_call_built(arg)
    \/ wrapper_call("request")

IdleOthersOfOperation ==
    /\ epy = None /\ events = <<>>
    /\ models = <<>> /\ bld = <<>> /\ cur = 0

InitOperation ==
    /\ op = OperationInit
    /\ pc = "idle"
    /\ doc = <<>>
    /\ calls = 0
    /\ result = NoResult
    /\ IdleOthersOfOperation

\* a fresh builder, and documentation texts about parameters
InitParams == InitOperation /\ universe = "params"

\* a fresh builder, and documentation texts about responses
InitResponses == InitOperation /\ universe = "responses"

SpecOperation == InitParams /\ [][NextOperation]_vars

SpecResponses == InitResponses /\ [][NextOperation]_vars

-----------------------------------------------------------------------------
(***************************************************************************)
(* model: the decorator of model classes, and settings.models.             *)
(*                                                                         *)
(* A class is what the decorator reads of it: its name, whether it has an  *)
(* __init__ and of which kind, and the argument names and default values   *)
(* of that __init__.  Builders are identified by the order of their        *)
(* construction; the registry holds builders.                              *)
(***************************************************************************)
Class(name, init, args, defaults) ==
    [name |-> name, init |-> init, args |-> args, defaults |-> defaults]

Classes ==
    {Class("Widget", "function", <<"self", "a", "c", "b">>, <<5>>),
     Class("Broken", "function", <<"this", "a">>, <<>>),
     Class("Opaque", "builtin", <<>>, <<>>),
     Class("Legacy", "none", <<>>, <<>>)}

ClassNamed(n) == CHOOSE c \in Classes : c.name = n

\* model.__init__
ModelInit == DictUpdate(DocParserInit, [required |-> <<>>, cls |-> None, id |-> None])

\* inspect.getargspec raises TypeError on an __init__ that is not a Python
\* function, and args.remove("self") raises ValueError when there is no self
ArgspecRaises(c) == c.init = "builtin" \/ ~InList("self", c.args)

Min(a, b) == IF a <= b THEN a ELSE b

Zip(xs, ys) == [i \in 1..Min(Len(xs), Len(ys)) |-> <<xs[i], ys[i]>>]

RECURSIVE SeedRequired(_, _)
SeedRequired(properties, args) ==
    IF args = <<>> THEN properties
    ELSE SeedRequired(ODSetDefault(properties, Head(args), [type |-> "string"]), Tail(args))

RECURSIVE SeedDefaults(_, _)
SeedDefaults(properties, defaults) ==
    IF defaults = <<>> THEN properties
    ELSE SeedDefaults(
             ODSetDefault(properties, Head(defaults)[1],
                          [type |-> "string", default |-> Head(defaults)[2]]),
             Tail(defaults))

\* model._parse_args as it would be if required_args_count ignored the
\* defaults
model_parse_args_all_required(m, c) ==
    LET args == ListRemove(c.args, "self")
        defaults == IF c.defaults # <<>>
                    THEN Zip(LastN(args, Len(c.defaults)), c.defaults)
                    ELSE <<>>
    IN  [m EXCEPT !.required = m.required \o args,
                  !.properties = SeedDefaults(SeedRequired(m.properties, args), defaults)]

\* model._parse_args, when it does not raise
model_parse_args(m, c) ==
    LET args == ListRemove(c.args, "self")
        defaults == IF c.defaults # <<>>
                    THEN Zip(LastN(args, Len(c.defaults)), c.defaults)
                    ELSE <<>>
        required_args_count == Len(args) - Len(defaults)
        required_args == SubSeq(args, 1, required_args_count)
    IN  [m EXCEPT !.required = m.required \o required_args,
                  !.properties =
                      SeedDefaults(SeedRequired(m.properties, required_args), defaults)]

\* model._parse_model up to the call of _parse_args
SetClass(m, c) == [m EXCEPT !.id = c.name, !.cls = c.name]

\* The record of the last call of a model builder: the builder, whether it
\* had its cls already, the class given, whether the call raised, the class
\* returned, and the registry before and after the call.
ModelCall(b, built, c, raised, returned, before, after) ==
    [callee |-> b, built |-> built, given |-> c, raised |-> raised,
     returned |-> returned, before |-> before, after |-> after]

NoModelCall == ModelCall(0, FALSE, None, FALSE, None, <<>>, <<>>)

\* model(): a new builder
model_new ==
    /\ pc = "idle"
    /\ Len(bld) < MaxBuilders
    /\ bld' = Append(bld, ModelInit)
    /\ UNCHANGED <<epy, events, op, pc, doc, universe, calls, result, models, cur>>

\* model.__call__ on a built builder as it would be if it appended again
model_call_built_registers_again(b, c) ==
    /\ pc = "idle"
    /\ Truthy(bld[b].cls)
    /\ Len(models) < MaxBuilders
    /\ models' = Append(models, b)
    /\ result' = ModelCall(b, TRUE, c.name, FALSE, bld[b].cls, models, models')
    /\ UNCHANGED <<epy, events, op, pc, doc, universe, calls, bld, cur>>

\* model.__call__ on a builder whose cls is set: return self.cls
model_call_built(b, c) ==
    /\ pc = "idle"
    /\ Truthy(bld[b].cls)
    /\ result' = ModelCall(b, TRUE, c.name, FALSE, bld[b].cls, models, models)
    /\ UNCHANGED <<epy, events, op, pc, doc, universe, calls, models, bld, cur>>

\* model._parse_model as it would be if models.append came before
\* _parse_args
model_call_registers_then_raises(b, c) ==
    /\ pc = "idle"
    /\ ~Truthy(bld[b].cls)
    /\ c.init # "none" /\ ArgspecRaises(c)
    /\ bld' = [bld EXCEPT ![b] = SetClass(@, c)]
    /\ models' = Append(models, b)
    /\ result' = ModelCall(b, FALSE, c.name, TRUE, None, models, models')
    /\ UNCHANGED <<epy, events, op, pc, doc, universe, calls, cur>>

\* model.__call__ on a fresh builder, with a class whose __init__ cannot be
\* introspected: id and cls are set, _parse_args raises, and the error
\* leaves __call__ before parse_docstring and models.append
model_call_raises(b, c) ==
    /\ pc = "idle"
    /\ ~Truthy(bld[b].cls)
    /\ c.init # "none" /\ ArgspecRaises(c)
    /\ bld' = [bld EXCEPT ![b] = SetClass(@, c)]
    /\ result' = ModelCall(b, FALSE, c.name, TRUE, None, models, models)
    /\ UNCHANGED <<epy, events, op, pc, doc, universe, calls, models, cur>>

\* model.__call__ on a fresh builder: id and cls are set, the signature of
\* __init__ (if the class has one) is parsed, and the loop of
\* parse_docstring is entered
model_call_first(b, c) ==
    /\ pc = "idle"
    /\ ~Truthy(bld[b].cls)
    /\ ~(c.init # "none" /\ ArgspecRaises(c))
    /\ bld' = [bld EXCEPT ![b] =
                  IF c.init # "none"
                  THEN model_parse_args(SetClass(@, c), c)
                  ELSE SetClass(@, c)]
    /\ pc' = "parsing"
    /\ cur' = b
    /\ doc' = <<>>
    /\ UNCHANGED <<epy, events, op, universe, calls, result, models>>

\* one iteration of the loop of parse_docstring
model_parse_field(field) ==
    /\ pc = "parsing"
    /\ Len(doc) < MaxFields
    /\ bld' = [bld EXCEPT ![cur] = DispatchField(@, field)]
    /\ doc' = Append(doc, field)
    /\ UNCHANGED <<epy, events, op, pc, universe, calls, result, models, cur>>

\* the end of the loop: models.append(self), and __call__ returns cls
model_call_return ==
    /\ pc = "parsing"
    /\ models' = Append(models, cur)
    /\ pc' = "idle"
    /\ result' = ModelCall(cur, FALSE, bld[cur].cls, FALSE, bld[cur].cls,
                           models, models')
    /\ UNCHANGED <<epy, events, op, doc, universe, calls, bld, cur>>

NextProperties ==
    \/ \E b \in DOMAIN bld, c \in Classes : model_call_built(b, c)
    \/ \E b \in DOMAIN bld, c \in Classes : model_call_raises(b, c)
    \/ \E b \in DOMAIN bld, c \in Classes : model_call_first(b, c)
    \/ \E field \in FieldsOf(universe) : model_parse_field(field)
    \/ model_call_return

NextRegistry ==
    \/ model_new
    \/ NextProperties

IdleOthersOfModel ==
    /\ epy = None /\ events = <<>>
    /\ op = None /\ calls = 0

InitModel ==
    /\ models = <<>>
    /\ pc = "idle"
    /\ doc = <<>>
    /\ cur = 0
    /\ result = NoModelCall
    /\ IdleOthersOfModel

\* no builder yet, and classes with one short documentation text
InitRegistry == InitModel /\ bld = <<>> /\ universe = "registry"

\* one builder, just constructed, and every documentation of properties
InitProperties == InitModel /\ bld = <<ModelInit>> /\ universe = "properties"

SpecRegistry == InitRegistry /\ [][NextRegistry]_vars

SpecProperties == InitProperties /\ [][NextProperties]_vars

-----------------------------------------------------------------------------
(***************************************************************************)
(* C9: the span extractor.                                                 *)
(***************************************************************************)
IsTargetStart(i) == events[i] = StartEv(epy.tag)
IsTargetEnd(i) == events[i] = EndEv(epy.tag)

\* event i is read inside an element of the target name, as the parser
\* tracks it: a start tag of the target name precedes it with no end tag of
\* that name in between
FlagSetAt(i) ==
    \E j \in 1..(i - 1) :
        /\ IsTargetStart(j)
        /\ \A m \in (j + 1)..(i - 1) : ~IsTargetEnd(m)

TextsWithFlag == {i \in DOMAIN events : events[i].k = "data" /\ FlagSetAt(i)}

MinOf(S) == CHOOSE i \in S : \A j \in S : i <= j
MaxOf(S) == CHOOSE i \in S : \A j \in S : j <= i

\* C9 as claimed: the extractor returns the first text event inside an
\* element of the target name, and None when there is none; later spans
\* never change the result.
C9_FirstTextWins ==
    get_data(epy) = IF TextsWithFlag = {} THEN None
                    ELSE events[MinOf(TextsWithFlag)].v

\* C9 amended: the extractor returns the LAST text event read inside an
\* element of the target name (between a start tag of that name and the
\* next end tag of that name), and None when there is none; text read
\* after the element is closed never changes the result.
C9_LastTextWins ==
    get_data(epy) = IF TextsWithFlag = {} THEN None
                    ELSE events[MaxOf(TextsWithFlag)].v

\* two spans of the target name with different texts have been read and
\* the result is the text of the second
C9_Witness ==
    \E i, j \in TextsWithFlag :
        /\ i < j
        /\ events[i].v # events[j].v
        /\ \E m \in (i + 1)..(j - 1) : IsTargetEnd(m)
        /\ get_data(epy) = events[j].v

-----------------------------------------------------------------------------
(***************************************************************************)
(* The documentation text read so far, and the decorated function.         *)
(***************************************************************************)
\* the fields of doc with this tag and argument
FieldsFor(tag, a) == {i \in DOMAIN doc : doc[i].tag = tag /\ doc[i].arg = a}

\* the plain text of field i
TextOf(i) == _get_body(doc[i].body)

TheFunc == FuncNamed(op.func)

\* the parameters of the signature, the receiver excluded
SigParams(f) == {f.args[i] : i \in DOMAIN f.args} \ {"self"}

\* parameter x of f has a default: it is among the last ndefaults arguments
HasDefault(f, x) ==
    \E i \in DOMAIN f.args : f.args[i] = x /\ i > Len(f.args) - f.ndefaults

RECURSIVE parse_fields(_, _)
parse_fields(dp, fields) ==
    IF fields = <<>> THEN dp
    ELSE parse_fields(DispatchField(dp, Head(fields)), Tail(fields))

Descriptor(o) ==
    [params |-> o.params, responses |-> o.responseMessages,
     summary |-> o.summary, notes |-> o.notes]

\* the built decorator has just been called again with the function it
\* decorated
Redecorated ==
    /\ result.callee = "operation"
    /\ result.built
    /\ result.arg = op.func

BuiltOnce ==
    /\ op.parsed = 1
    /\ Descriptor(op) =
           Descriptor(parse_fields(_parse_operation(OperationInit, TheFunc), doc))

\* C1 as claimed: applying the built decorator to f again returns the
\* wrapper of the first decoration, does not invoke f, and leaves the
\* descriptor as the first decoration built it, parsed once.
C1_RedecorationReturnsWrapper ==
    Redecorated => (result.value = Wrapper /\ ~result.invoked /\ BuiltOnce)

\* C1 amended: applying the built decorator to f again invokes f with the
\* given argument and returns what f returns, not the wrapper; the
\* descriptor stays as the first decoration built it, and the signature and
\* the documentation are parsed exactly once.
C1_RedecorationInvokesFunc ==
    Redecorated => (result.value = FuncResult /\ result.invoked /\ BuiltOnce)

\* a function with documented parameters was decorated and the built
\* decorator was then called with that function
C1_Witness ==
    /\ Redecorated
    /\ op.func = "put"
    /\ Len(doc) >= 2
    /\ calls >= 1

\* C3 as claimed: a parameter with a @param field and no @in field has
\* paramType "query", whatever the signature.
C3_ParamDefaultsToQuery ==
    pc # "idle" =>
        \A x \in ParamNames :
            (FieldsFor("param", x) # {} /\ FieldsFor("in", x) = {})
                => ODGet(op.params, x).paramType = "query"

\* C3 amended: a parameter with a @param field and no @in field has
\* paramType "query" when it is not a parameter of the signature, and keeps
\* the seeded "path" when it is.
C3_ParamQueryUnlessSeeded ==
    pc # "idle" =>
        \A x \in ParamNames :
            (FieldsFor("param", x) # {} /\ FieldsFor("in", x) = {})
                => ODGet(op.params, x).paramType =
                       IF x \in SigParams(TheFunc) THEN "path" ELSE "query"

\* get(self, x) with @param x and @param y and no @in: x stays "path", y is
\* "query"
C3_Witness ==
    /\ pc = "done"
    /\ op.func = "get"
    /\ \A x \in ParamNames : FieldsFor("param", x) # {} /\ FieldsFor("in", x) = {}
    /\ ODGet(op.params, "x").paramType = "path"
    /\ ODGet(op.params, "y").paramType = "query"

\* C4 as claimed: the last @required x field gives required == FALSE
\* exactly when its body is the lowercase literal false.
C4_RequiredFalseOnlyLowercase ==
    \A x \in ParamNames :
        FieldsFor("required", x) # {} =>
            ODGet(op.params, x).required
                = (TextOf(MaxOf(FieldsFor("required", x))) # "false")

\* C4 amended: the last @required x field gives required == FALSE exactly
\* when its body is false or False; every other body gives TRUE.
C4_RequiredFalseEitherCase ==
    \A x \in ParamNames :
        FieldsFor("required", x) # {} =>
            ODGet(op.params, x).required
                = (TextOf(MaxOf(FieldsFor("required", x))) \notin {"false", "False"})

\* @required x: False and @required y: true were read
C4_Witness ==
    /\ FieldsFor("required", "x") # {}
    /\ TextOf(MaxOf(FieldsFor("required", "x"))) = "False"
    /\ ODGet(op.params, "x").required = FALSE
    /\ FieldsFor("required", "y") # {}
    /\ TextOf(MaxOf(FieldsFor("required", "y"))) = "true"
    /\ ODGet(op.params, "y").required = TRUE

\* C8: each parameter of the signature holds, per field, the value of the
\* last @in, @type or @required field written for it, and the seeded value
\* ("path", "string", required iff it has no default) where the
\* documentation has no such field.
C8_MergePrecedence ==
    pc # "idle" =>
        \A x \in SigParams(TheFunc) :
            LET e == ODGet(op.params, x)
                ins == FieldsFor("in", x)
                types == FieldsFor("type", x)
                reqs == FieldsFor("required", x)
            IN  /\ e.name = x
                /\ e.paramType = IF ins = {} THEN "path" ELSE TextOf(MaxOf(ins))
                /\ e.dataType = IF types = {} THEN "string" ELSE TextOf(MaxOf(types))
                /\ e.required = IF reqs = {} THEN ~HasDefault(TheFunc, x)
                                ELSE TextOf(MaxOf(reqs)) \notin {"false", "False"}

\* put(self, x, y=1): x documented as @in x and @required x: false, y left
\* to the signature
C8_Witness ==
    /\ pc = "done"
    /\ op.func = "put"
    /\ FieldsFor("in", "x") # {}
    /\ ODGet(op.params, "x").paramType = "header"
    /\ ODGet(op.params, "x").dataType = "string"
    /\ ODGet(op.params, "x").required = FALSE
    /\ ODGet(op.params, "y") =
           [name |-> "y", required |-> FALSE, paramType |-> "path", dataType |-> "string"]

-----------------------------------------------------------------------------
(***************************************************************************)
(* C5: responses and their models.                                         *)
(***************************************************************************)
IsResponseField(i) == doc[i].tag \in {"return", "raise"}

\* the field of doc that appended the k-th response
ResponseField(k) ==
    CHOOSE i \in DOMAIN doc :
        /\ IsResponseField(i)
        /\ Cardinality({j \in 1..i : IsResponseField(j)}) = k

\* the @rtype fields for code c before field i
RtypesBefore(c, i) == {j \in 1..(i - 1) : doc[j].tag = "rtype" /\ doc[j].arg = c}

RtypesAfter(c, i) ==
    {j \in (i + 1)..Len(doc) : doc[j].tag = "rtype" /\ doc[j].arg = c}

OneResponsePerField ==
    Len(op.responseMessages) = Cardinality({i \in DOMAIN doc : IsResponseField(i)})

\* C5 as claimed: the response of a @return c or @raise c field is
\* {code: c, message: body}, carries responseModel == M exactly when an
\* @rtype c: M field occurs earlier in the document, and has no
\* responseModel key when no @rtype c precedes it.
C5_ModelFromAnyEarlierRtype ==
    /\ OneResponsePerField
    /\ \A k \in DOMAIN op.responseMessages :
           LET r == op.responseMessages[k]
               i == ResponseField(k)
               c == doc[i].arg
           IN  /\ r.code = c
               /\ r.message = TextOf(i)
               /\ \A j \in RtypesBefore(c, i) :
                      "responseModel" \in DOMAIN r /\ r.responseModel = TextOf(j)
               /\ RtypesBefore(c, i) = {} => "responseModel" \notin DOMAIN r

\* C5 amended: the response of a @return c or @raise c field is
\* {code: c, message: body}; it carries a responseModel exactly when c is
\* given (not absent or empty) and the LAST @rtype c field before it has a
\* non-empty body M, and then responseModel == M; it has no responseModel
\* key otherwise, whatever @rtype fields follow.  Each response is thus
\* fixed by the fields up to its own, and later fields never modify it.
C5_ModelFromLastEarlierRtype ==
    /\ OneResponsePerField
    /\ \A k \in DOMAIN op.responseMessages :
           LET r == op.responseMessages[k]
               i == ResponseField(k)
               c == doc[i].arg
               before == RtypesBefore(c, i)
               has == Truthy(c) /\ before # {} /\ Truthy(TextOf(MaxOf(before)))
           IN  /\ r.code = c
               /\ r.message = TextOf(i)
               /\ ("responseModel" \in DOMAIN r) = has
               /\ has => r.responseModel = TextOf(MaxOf(before))

\* @rtype 200 with a model, @return 200, and a response for another code
\* whose @rtype comes only after it
C5_Witness ==
    \E k1, k2 \in DOMAIN op.responseMessages :
        /\ op.responseMessages[k1] =
               [code |-> "200", message |-> "OK", responseModel |-> "Widget"]
        /\ "responseModel" \notin DOMAIN op.responseMessages[k2]
        /\ LET i == ResponseField(k2)
           IN  /\ Truthy(doc[i].arg)
               /\ RtypesBefore(doc[i].arg, i) = {}
               /\ \E j \in RtypesAfter(doc[i].arg, i) : Truthy(TextOf(j))

-----------------------------------------------------------------------------
(***************************************************************************)
(* C2, C10: the registry.                                                  *)
(***************************************************************************)
RegisteredAs(name) == {i \in DOMAIN models : bld[models[i]].id = name}

EntriesOf(b) == {i \in DOMAIN models : models[i] = b}

\* the last call was a call of a built builder with the class it decorated
SecondDecoration ==
    /\ result.callee # 0
    /\ result.built
    /\ result.given = bld[result.callee].cls

\* C2 as claimed: whatever model-decorator calls were made on a class, the
\* registry holds at most one descriptor with the name of that class as id,
\* and a second decoration of the class appends nothing and returns it.
C2_OneDescriptorPerClass ==
    /\ \A c \in Classes : Cardinality(RegisteredAs(c.name)) <= 1
    /\ SecondDecoration =>
           (result.after = result.before /\ result.returned = result.given)

\* C2 amended: registration happens at most once per builder (decorator
\* instance): the registry holds at most one entry of each builder, and a
\* further call of a builder that already processed a class appends nothing
\* and returns the class it processed first.  Two builders applied to the
\* same class register two descriptors with the same id.
C2_OneDescriptorPerBuilder ==
    /\ \A b \in DOMAIN bld : Cardinality(EntriesOf(b)) <= 1
    /\ (result.callee # 0 /\ result.built) =>
           /\ result.after = result.before
           /\ models = result.before
           /\ result.returned = bld[result.callee].cls

\* a registered builder was called again with its class, while another
\* builder has registered the same class
C2_Witness ==
    /\ SecondDecoration
    /\ EntriesOf(result.callee) # {}
    /\ Cardinality(RegisteredAs(result.given)) = 2

\* the builders whose decoration raised: a class is set, and the builder is
\* neither registered nor in the loop of parse_docstring
Failed(b) ==
    /\ Truthy(bld[b].cls)
    /\ EntriesOf(b) = {}
    /\ ~(pc = "parsing" /\ cur = b)

\* C10: a decoration whose signature introspection fails raises and leaves
\* the registry as it was, the builder of the failed class is never
\* registered, and every other first decoration, before or after it,
\* appends exactly its own builder, with the name of its class as id.
C10_FailureLeavesRegistry ==
    /\ models = result.after
    /\ result.raised =>
           /\ result.after = result.before
           /\ result.returned = None
           /\ EntriesOf(result.callee) = {}
    /\ \A b \in DOMAIN bld :
           (Truthy(bld[b].cls) /\ bld[b].cls \in {"Broken", "Opaque"}) => EntriesOf(b) = {}
    /\ (result.callee # 0 /\ ~result.built /\ ~result.raised) =>
           /\ result.after = Append(result.before, result.callee)
           /\ result.returned = result.given
           /\ bld[result.callee].id = result.given

\* a decoration succeeded, the next failed, and one after it succeeded
C10_Witness ==
    /\ Len(bld) = 3
    /\ models = <<1, 3>>
    /\ Failed(2)
    /\ bld[2].cls = "Broken"
    /\ result = ModelCall(3, FALSE, "Widget", FALSE, "Widget", <<1>>, <<1, 3>>)

-----------------------------------------------------------------------------
(***************************************************************************)
(* C6, C7: the properties of a model.                                      *)
(***************************************************************************)
TheModel == bld[cur]

TheClass == ClassNamed(TheModel.cls)

\* the text of the inline element tag of a body, None if it has none
SpanOf(body, tag) ==
    IF \E i \in DOMAIN body : body[i] = StartEv(tag)
    THEN body[(CHOOSE i \in DOMAIN body : body[i] = StartEv(tag)) + 1].v
    ELSE None

\* the body spells a list: a code span list and a link span
IsListOf(body) == SpanOf(body, "code") = "list" /\ SpanOf(body, "link") # None

\* C6: after a @ptype p field, p has type "array" and items.type equal to
\* the text of the link span when the body has both a code span list and a
\* link span; in every other case p does not have type "array" and its
\* type is the text of the body.
C6_ArrayOnlyWithListAndLink ==
    (cur # 0 /\ doc # <<>> /\ doc[Len(doc)].tag = "ptype") =>
        LET p == doc[Len(doc)].arg
            body == doc[Len(doc)].body
        IN  /\ p \in ODKeys(TheModel.properties)
            /\ LET e == ODGet(TheModel.properties, p)
               IN  IF IsListOf(body)
                   THEN /\ e.type = "array"
                        /\ e.items.type = SpanOf(body, "link")
                   ELSE /\ e.type # "array"
                        /\ e.type = _get_body(body)

\* the parameters of __init__ without the receiver, in declaration order
RECURSIVE WithoutSelf(_)
WithoutSelf(args) ==
    IF args = <<>> THEN <<>>
    ELSE IF Head(args) = "self" THEN Tail(args)
    ELSE <<Head(args)>> \o WithoutSelf(Tail(args))

DeclaredRequired(c) ==
    LET a == WithoutSelf(c.args) IN SubSeq(a, 1, Len(a) - Len(c.defaults))

\* the @ptype fields for x that set its type: those without a code span
\* and those whose code span is list
TypeFieldsFor(x) ==
    {i \in FieldsFor("ptype", x) : SpanOf(doc[i].body, "code") \in {None, "list"}}

=============================================================================
